---- MODULE Spec2Model ----
(***************************************************************************)
(* tmux-urlview: URL extraction from captured terminal text, and the run   *)
(* that feeds the extracted URLs to a selector and the chosen one to an    *)
(* opener.                                                                 *)
(*                                                                         *)
(* A Go string is modelled as a sequence of one-character strings, so that *)
(* the regular expression, strings.TrimRight, strings.Join and url.Parse   *)
(* are computed character by character.                                    *)
(*                                                                         *)
(* The repository holds extractURLs twice: src/main.go:73-92 (the Go       *)
(* source) and the copy printed in src/README.md:211-230.  extractURLs     *)
(* below is the Go source file's; run, GetInput and the main that calls    *)
(* run exist only in src/README.md:107-209 and are modelled from there.    *)
(***************************************************************************)
EXTENDS Integers, Sequences, FiniteSets, TLC

VARIABLES
    text,        \* extractURLs' argument: string(input) in run
    validURLs,   \* extractURLs' return value: urls in run
    firstURLs,   \* the return value of a first call, kept for the second
    phase,       \* "input" | "extracted" | "joined" | "reextracted"
    args,        \* os.Args[1], "" when there is none
    isStdinTTY,  \* Environment.IsStdinTTY()
    tmuxPane,    \* Environment.GetEnv("TMUX_PANE")
    paneContent, \* what `tmux capture-pane` prints
    stdinContent,\* what standard input holds
    pc,          \* the statement of main and run that is next
    lastCommand, \* the command line CommandRunner.RunCommand was given
    stdinRead,   \* io.ReadAll(os.Stdin) was called
    calls,       \* the calls run made on its collaborators, with what each returned
    selectedURL, \* run's selectedURL
    err,         \* run's return value
    stdout,      \* the lines written to os.Stdout
    stderr,      \* the lines written to os.Stderr
    exitCode     \* the exit code of the process, -1 while it runs

xvars == <<text, validURLs, firstURLs, phase>>

rvars == <<args, isStdinTTY, tmuxPane, paneContent, stdinContent, pc, lastCommand,
           stdinRead, calls, selectedURL, err, stdout, stderr, exitCode>>

vars == <<xvars, rvars>>

----------------------------------------------------------------------------
(* Bounds of the checked inputs *)

\* Texts of up to MaxPieces pieces are checked exhaustively.
MaxPieces == 5

\* Texts of up to MaxWords sample words, one space between two.
MaxWords == 3

\* The pane and standard input hold texts of up to MaxRunWords sample words.
MaxRunWords == 1

----------------------------------------------------------------------------
(* Characters and strings *)

HTTPS == <<"h", "t", "t", "p", "s", ":", "/", "/">>
HTTP == <<"h", "t", "t", "p", ":", "/", "/">>
UPPER == <<"H", "T", "T", "P", "S", ":", "/", "/">>

\* The pieces input texts are concatenated from.
Pieces == {HTTPS, HTTP, UPPER, <<"x">>, <<".">>, <<")">>, <<"}">>, <<" ">>}

\* strings.Join(elems, sep).
RECURSIVE Join(_, _)
Join(elems, sep) ==
    IF elems = <<>> THEN <<>>
    ELSE IF Len(elems) = 1 THEN elems[1]
    ELSE elems[1] \o sep \o Join(Tail(elems), sep)

RECURSIVE Concat(_)
Concat(ps) == IF ps = <<>> THEN <<>> ELSE Head(ps) \o Concat(Tail(ps))

PieceSeqs(n) == UNION {[1..k -> Pieces] : k \in 0..n}

Texts(n) == {Concat(ps) : ps \in PieceSeqs(n)}

\* Sample words, after the inputs of TestExtractURLs with the host cut to "x":
\* a URL, the URL before a full stop, an http URL, a scheme before a full
\* stop, a URL before a parenthesis, an upper-case scheme, a plain word, a
\* bare scheme.
Words == {HTTPS \o <<"x">>, HTTPS \o <<"x", ".">>, HTTP \o <<"x">>,
          HTTPS \o <<".">>, HTTPS \o <<"x", ")">>, UPPER \o <<"x">>,
          <<"x">>, HTTPS}

WordTexts(n) == {Join(ws, <<" ">>) : ws \in UNION {[1..k -> Words] : k \in 0..n}}

\* The texts extractURLs is checked on.
Inputs == Texts(MaxPieces) \cup WordTexts(MaxWords)

HasPrefixAt(s, i, p) ==
    /\ i + Len(p) - 1 <= Len(s)
    /\ \A k \in 1..Len(p) : s[i + k - 1] = p[k]

HasSuffix(s, c) == Len(s) > 0 /\ s[Len(s)] = c

\* The position of the first c in s, 0 when there is none (strings.Index).
Index(s, c) ==
    IF \E i \in 1..Len(s) : s[i] = c
    THEN CHOOSE i \in 1..Len(s) : s[i] = c /\ \A j \in 1..(i - 1) : s[j] # c
    ELSE 0

\* The position of the last c in s, 0 when there is none (strings.LastIndex).
LastIndex(s, c) ==
    IF \E i \in 1..Len(s) : s[i] = c
    THEN CHOOSE i \in 1..Len(s) : s[i] = c /\ \A j \in (i + 1)..Len(s) : s[j] # c
    ELSE 0

Range(q) == {q[i] : i \in 1..Len(q)}

----------------------------------------------------------------------------
(* regexp `https?://[^\s]+` and FindAllString (src/main.go:74-75) *)

\* \s of Go's regexp syntax: [\t\n\f\r ].
IsSpace(c) == c \in {" ", "\t", "\n", "\f", "\r"}

\* A variant of SchemeLenAt that also takes the upper-case scheme.
SchemeLenAtAnyCase(s, i) ==
    IF HasPrefixAt(s, i, HTTPS) \/ HasPrefixAt(s, i, UPPER) THEN Len(HTTPS)
    ELSE IF HasPrefixAt(s, i, HTTP) THEN Len(HTTP)
    ELSE 0

\* The length of `https?://` matched at position i of s, 0 when it does not
\* match there.  The letters are matched case-sensitively.
SchemeLenAt(s, i) ==
    IF HasPrefixAt(s, i, HTTPS) THEN Len(HTTPS)
    ELSE IF HasPrefixAt(s, i, HTTP) THEN Len(HTTP)
    ELSE 0

\* Whether the whole expression matches at i: the scheme, then `[^\s]+`,
\* which needs one character that is no white space.
MatchesAt(s, i) ==
    LET n == SchemeLenAt(s, i)
    IN  n > 0 /\ i + n <= Len(s) /\ ~IsSpace(s[i + n])

\* `[^\s]+` is greedy: the match that starts at i ends right before the next
\* white space, or at the end of s.
MatchEnd(s, i) ==
    LET from == i + SchemeLenAt(s, i)
    IN  CHOOSE e \in from..Len(s) :
            /\ \A k \in from..e : ~IsSpace(s[k])
            /\ (e = Len(s) \/ IsSpace(s[e + 1]))

\* The leftmost matches from position i on, none overlapping another, as
\* [start, end] pairs (regexp.FindAllStringIndex).
RECURSIVE FindAllFrom(_, _)
FindAllFrom(s, i) ==
    IF i > Len(s) THEN <<>>
    ELSE IF MatchesAt(s, i)
         THEN <<[start |-> i, end |-> MatchEnd(s, i)]>>
                  \o FindAllFrom(s, MatchEnd(s, i) + 1)
         ELSE FindAllFrom(s, i + 1)

FindAllStringIndex(s) == FindAllFrom(s, 1)

FindAllString(s) ==
    LET loc == FindAllStringIndex(s)
    IN  [k \in 1..Len(loc) |-> SubSeq(s, loc[k].start, loc[k].end)]

----------------------------------------------------------------------------
(* strings.TrimRight(match, ".,;!?") (src/main.go:81) *)

\* The cutset of the Go source file.
Cutset == {".", ",", ";", "!", "?"}

RECURSIVE TrimRight(_, _)
TrimRight(s, cutset) ==
    IF Len(s) > 0 /\ s[Len(s)] \in cutset
    THEN TrimRight(SubSeq(s, 1, Len(s) - 1), cutset)
    ELSE s

----------------------------------------------------------------------------
(* url.Parse of net/url, as far as it can fail (src/main.go:83).           *)
(* Cleaned candidates hold no white space; '[' (an IPv6 literal) is not in   *)
(* the checked alphabet and its branch of parseHost is left out.            *)

Lower == {"a", "b", "c", "d", "e", "f", "g", "h", "i", "j", "k", "l", "m",
          "n", "o", "p", "q", "r", "s", "t", "u", "v", "w", "x", "y", "z"}
Upper == {"A", "B", "C", "D", "E", "F", "G", "H", "I", "J", "K", "L", "M",
          "N", "O", "P", "Q", "R", "S", "T", "U", "V", "W", "X", "Y", "Z"}
Digit == {"0", "1", "2", "3", "4", "5", "6", "7", "8", "9"}
HexDigit == Digit \cup {"a", "b", "c", "d", "e", "f", "A", "B", "C", "D", "E", "F"}

\* stringContainsCTLByte, for the control characters a model string can hold.
ContainsCTLByte(s) == \E i \in 1..Len(s) : s[i] \in {"\t", "\n", "\f", "\r"}

\* getScheme: the end of the leading run scheme characters, which ':' must
\* follow.  [scheme, rest, ok]; ok is FALSE for "missing protocol scheme".
GetScheme(s) ==
    LET InScheme(i) == \/ s[i] \in Lower \cup Upper
                       \/ i > 1 /\ s[i] \in Digit \cup {"+", "-", "."}
        stops == {i \in 1..Len(s) : ~InScheme(i)}
        stop == CHOOSE i \in stops : \A j \in stops : i <= j
    IN  IF stops = {} \/ s[stop] # ":"
        THEN [scheme |-> <<>>, rest |-> s, ok |-> TRUE]
        ELSE IF stop = 1
        THEN [scheme |-> <<>>, rest |-> <<>>, ok |-> FALSE]
        ELSE [scheme |-> SubSeq(s, 1, stop - 1),
              rest |-> SubSeq(s, stop + 1, Len(s)), ok |-> TRUE]

\* s up to its first c (all of s when c is not in it): strings.Cut's before.
Before(s, c) == IF Index(s, c) = 0 THEN s ELSE SubSeq(s, 1, Index(s, c) - 1)

\* s from its first c on, c included ("" when c is not in it).
FromFirst(s, c) == IF Index(s, c) = 0 THEN <<>> ELSE SubSeq(s, Index(s, c), Len(s))

\* unescape fails on a '%' that two hexadecimal digits do not follow.
BadEscape(s) ==
    \E i \in 1..Len(s) :
        /\ s[i] = "%"
        /\ ~(i + 2 <= Len(s) /\ s[i + 1] \in HexDigit /\ s[i + 2] \in HexDigit)

\* shouldEscape(c, encodeHost) = false: the characters a host may hold.
HostChar(c) ==
    \/ c \in Lower \cup Upper \cup Digit
    \/ c \in {"!", "$", "&", "'", "(", ")", "*", "+", ",", ";", "=", ":",
              "[", "]", "<", ">", "\""}
    \/ c \in {"-", "_", ".", "~"}

\* validOptionalPort: "", or ':' and digits only.
ValidOptionalPort(port) ==
    port = <<>> \/ (port[1] = ":" /\ \A i \in 2..Len(port) : port[i] \in Digit)

\* parseHost: the port after the last ':', then unescape(host, encodeHost),
\* which takes only "%25" among the escapes of the first half of ASCII.
ParseHostOK(host) ==
    /\ LastIndex(host, ":") # 0
          => ValidOptionalPort(SubSeq(host, LastIndex(host, ":"), Len(host)))
    /\ ~BadEscape(host)
    /\ \A i \in 1..Len(host) :
          IF host[i] = "%"
          THEN host[i + 1] \in {"0", "1", "2", "3", "4", "5", "6", "7"}
                   => (host[i + 1] = "2" /\ host[i + 2] = "5")
          ELSE (i > 2 /\ host[i - 2] = "%") \/ (i > 1 /\ host[i - 1] = "%")
                   \/ HostChar(host[i])

\* validUserinfo.
UserinfoChar(c) ==
    \/ c \in Lower \cup Upper \cup Digit
    \/ c \in {"-", ".", "_", ":", "~", "!", "$", "&", "'", "(", ")", "*",
              "+", ",", ";", "=", "%", "@"}

\* parseAuthority: the host after the last '@', the userinfo before it.
ParseAuthorityOK(authority) ==
    LET at == LastIndex(authority, "@")
        userinfo == SubSeq(authority, 1, at - 1)
    IN  /\ ParseHostOK(SubSeq(authority, at + 1, Len(authority)))
        /\ at # 0 => (\A i \in 1..Len(userinfo) : UserinfoChar(userinfo[i]))
                       /\ ~BadEscape(userinfo)

\* parse(rawURL, false) of what precedes '#': TRUE when it returns no error.
ParseOK(u) ==
    LET sch == GetScheme(u)
        rest == IF HasSuffix(sch.rest, "?")
                    /\ Cardinality({i \in 1..Len(sch.rest) : sch.rest[i] = "?"}) = 1
                THEN SubSeq(sch.rest, 1, Len(sch.rest) - 1)
                ELSE Before(sch.rest, "?")
        hasAuthority == /\ sch.scheme # <<>> \/ ~HasPrefixAt(rest, 1, <<"/", "/", "/">>)
                        /\ HasPrefixAt(rest, 1, <<"/", "/">>)
        afterSlashes == SubSeq(rest, 3, Len(rest))
        path == IF hasAuthority THEN FromFirst(afterSlashes, "/") ELSE rest
    IN  /\ ~ContainsCTLByte(u)
        /\ sch.ok
        /\ IF ~HasPrefixAt(rest, 1, <<"/">>) /\ sch.scheme # <<>>
           THEN TRUE    \* a rootless path after a scheme is opaque
           ELSE /\ ~HasPrefixAt(rest, 1, <<"/">>)
                      => Index(Before(rest, "/"), ":") = 0
                /\ hasAuthority => ParseAuthorityOK(Before(afterSlashes, "/"))
                /\ ~BadEscape(path)

\* url.Parse(rawURL) returns err == nil.
UrlParseOK(rawURL) ==
    /\ ParseOK(Before(rawURL, "#"))
    /\ Index(rawURL, "#") # 0
          => ~BadEscape(SubSeq(rawURL, Index(rawURL, "#") + 1, Len(rawURL)))

----------------------------------------------------------------------------
(* extractURLs (src/main.go:73-92) *)

\* Variants of Accept: one that appends without looking at seen, one that
\* puts the new URL in front.
AcceptAlways(acc, cleaned) ==
    [valid |-> Append(acc.valid, cleaned), seen |-> acc.seen \cup {cleaned}]

AcceptInFront(acc, cleaned) ==
    IF cleaned \notin acc.seen
    THEN [valid |-> <<cleaned>> \o acc.valid, seen |-> acc.seen \cup {cleaned}]
    ELSE acc

\* if !seen[cleaned] { validURLs = append(validURLs, cleaned); seen[cleaned] = true }
Accept(acc, cleaned) ==
    IF cleaned \notin acc.seen
    THEN [valid |-> Append(acc.valid, cleaned), seen |-> acc.seen \cup {cleaned}]
    ELSE acc

\* One iteration of `for _, match := range matches`.
LoopBody(acc, match) ==
    LET cleaned == TrimRight(match, Cutset)
    IN  IF UrlParseOK(cleaned) THEN Accept(acc, cleaned) ELSE acc

RECURSIVE Loop(_, _)
Loop(matches, acc) ==
    IF matches = <<>> THEN acc
    ELSE Loop(Tail(matches), LoopBody(acc, Head(matches)))

extractURLs(t) == Loop(FindAllString(t), [valid |-> <<>>, seen |-> {}]).valid

----------------------------------------------------------------------------
(* Errors: nil, or an error with its message *)

Nil == [failed |-> FALSE, msg |-> ""]

Error(msg) == [failed |-> TRUE, msg |-> msg]

\* The messages of the errors the collaborators return.
Causes == {"exit status 1", "file already closed"}

----------------------------------------------------------------------------
(* extractURLs applied to a text, and again to its own result joined by    *)
(* "\n", which is what run hands the selector (src/README.md:124).         *)

XInit ==
    /\ text \in Inputs
    /\ validURLs = <<>>
    /\ firstURLs = <<>>
    /\ phase = "input"
    /\ args = ""
    /\ isStdinTTY = FALSE
    /\ tmuxPane = ""
    /\ paneContent = <<>>
    /\ stdinContent = <<>>
    /\ pc = "extractURLs"
    /\ lastCommand = <<>>
    /\ stdinRead = FALSE
    /\ calls = <<>>
    /\ selectedURL = <<>>
    /\ err = Nil
    /\ stdout = <<>>
    /\ stderr = <<>>
    /\ exitCode = -1

Extract ==
    /\ phase = "input"
    /\ validURLs' = extractURLs(text)
    /\ firstURLs' = extractURLs(text)
    /\ phase' = "extracted"
    /\ UNCHANGED <<text, rvars>>

JoinResult ==
    /\ phase = "extracted"
    /\ text' = Join(validURLs, <<"\n">>)
    /\ validURLs' = <<>>
    /\ phase' = "joined"
    /\ UNCHANGED <<firstURLs, rvars>>

ExtractAgain ==
    /\ phase = "joined"
    /\ validURLs' = extractURLs(text)
    /\ phase' = "reextracted"
    /\ UNCHANGED <<text, firstURLs, rvars>>

XNext == Extract \/ JoinResult \/ ExtractAgain

SpecExtract == XInit /\ [][XNext]_vars

----------------------------------------------------------------------------
(* What the claims about extractURLs speak of *)

\* The stop-set of the specification and of src/README.md:221.
StopSet == {".", ",", ";", "!", "?", ")", "(", "]", "}"}

EndsInStopSet(u) == Len(u) > 0 /\ u[Len(u)] \in StopSet

HasScheme(u) == HasPrefixAt(u, 1, HTTPS) \/ HasPrefixAt(u, 1, HTTP)

\* The candidate matches of text, each with its place and its cleaned form.
Candidates ==
    LET loc == FindAllStringIndex(text)
    IN  {[start |-> loc[k].start,
          match |-> SubSeq(text, loc[k].start, loc[k].end),
          url |-> TrimRight(SubSeq(text, loc[k].start, loc[k].end), Cutset)]
             : k \in 1..Len(loc)}

ValidCandidates == {c \in Candidates : UrlParseOK(c.url)}

\* Where the cleaned valid URL u first occurs in text.
FirstOccurrence(u) ==
    LET at == {c.start : c \in {d \in ValidCandidates : d.url = u}}
    IN  CHOOSE p \in at : \A q \in at : p <= q

\* C1: every returned element is a candidate match right-trimmed of the nine
\* stop-set characters, so none ends with a stop-set character.
C1_StopSetTrimmed ==
    phase = "extracted" =>
        \A i \in 1..Len(validURLs) :
            /\ ~EndsInStopSet(validURLs[i])
            /\ \E c \in Candidates : validURLs[i] = TrimRight(c.match, StopSet)

\* C2: a candidate that is, or that stripping reduces to, the scheme and its
\* separator is discarded: no returned element is "https://" or "http://".
C2_NoBareScheme ==
    phase = "extracted" => HTTPS \notin Range(validURLs) /\ HTTP \notin Range(validURLs)

\* C3: extracting again from the result joined by "\n" returns the same set
\* of URLs.
C3_Idempotent ==
    phase = "reextracted" => Range(validURLs) = Range(firstURLs)

\* C3 apart from C2: the second extraction loses nothing but bare schemes,
\* and returns even the same sequence when the first returned none.
C3_IdempotentButBareScheme ==
    phase = "reextracted" =>
        /\ Range(validURLs) = Range(firstURLs) \ {HTTPS, HTTP}
        /\ (HTTPS \notin Range(firstURLs) /\ HTTP \notin Range(firstURLs))
              => validURLs = firstURLs

\* C4: the result lists the cleaned valid URLs in the order of their first
\* occurrence in the text; a later duplicate moves nothing.
C4_FirstOccurrenceOrder ==
    phase = "extracted" =>
        /\ Range(validURLs) = {c.url : c \in ValidCandidates}
        /\ \A i, j \in 1..Len(validURLs) :
              i < j => FirstOccurrence(validURLs[i]) < FirstOccurrence(validURLs[j])

\* A text where a URL occurs, then another, then the first again.
C4_Witness ==
    /\ phase = "extracted"
    /\ Len(validURLs) >= 2
    /\ \E a, b, c \in ValidCandidates :
          /\ a.start < b.start /\ b.start < c.start
          /\ a.url = validURLs[1] /\ b.url = validURLs[2] /\ c.url = validURLs[1]

\* C5: no two elements of the result are equal; candidates with the same
\* cleaned form produce one entry.
C5_NoDuplicates ==
    phase = "extracted" =>
        /\ \A i, j \in 1..Len(validURLs) : i # j => validURLs[i] # validURLs[j]
        /\ \A c \in ValidCandidates :
              Cardinality({i \in 1..Len(validURLs) : validURLs[i] = c.url}) = 1

\* A text with two candidates that differ only in the punctuation stripped.
C5_Witness ==
    /\ phase = "extracted"
    /\ Len(validURLs) = 1
    /\ \E a, b \in ValidCandidates :
          a.match # b.match /\ a.url = b.url /\ a.url = validURLs[1]

\* C6: every returned element stands in the text as a run without white
\* space that begins with lower-case "http://" or "https://"; a text without
\* such a substring yields the empty sequence.
C6_LowerCaseSchemeSubstring ==
    phase = "extracted" =>
        /\ \A i \in 1..Len(validURLs) :
              /\ HasScheme(validURLs[i])
              /\ \A k \in 1..Len(validURLs[i]) : ~IsSpace(validURLs[i][k])
              /\ \E p \in 1..Len(text) : HasPrefixAt(text, p, validURLs[i])
        /\ (\A p \in 1..Len(text) :
               ~HasPrefixAt(text, p, HTTPS) /\ ~HasPrefixAt(text, p, HTTP))
              => validURLs = <<>>

\* A text whose only scheme is upper-case, before a character that is no
\* white space: nothing is returned.
C6_Witness ==
    /\ phase = "extracted"
    /\ validURLs = <<>>
    /\ \E p \in 1..Len(text) :
          /\ HasPrefixAt(text, p, UPPER)
          /\ p + Len(UPPER) <= Len(text)
          /\ ~IsSpace(text[p + Len(UPPER)])
    /\ \A p \in 1..Len(text) :
          ~HasPrefixAt(text, p, HTTPS) /\ ~HasPrefixAt(text, p, HTTP)

----------------------------------------------------------------------------
(* main and run (src/README.md:107-209) *)

\* What the pane and standard input may hold.
RunTexts == WordTexts(MaxRunWords)

\* The line `tmux-urlview init` prints (src/README.md:195).
Binding == "bind U display-popup -E 'tmux capture-pane -p | tmux-urlview'"

\* A variant of UseTmuxPane: a terminal or a pane is enough.
UseTmuxPaneEither(tty, pane) == tty \/ pane # ""

\* r.env.IsStdinTTY() && r.env.GetEnv("TMUX_PANE") != "" (src/README.md:113,
\* and src/main.go:18).
UseTmuxPane(tty, pane) == tty /\ pane # ""

\* A variant of NoURLs: the selector is asked whatever was found.
NoURLsNever(urls) == FALSE

\* len(urls) == 0 (src/README.md:175).
NoURLs(urls) == Len(urls) = 0

\* A variant of Chosen: the opener is called whatever was selected.
ChosenAlways(sel) == TRUE

\* selectedURL != "" (src/README.md:184).
Chosen(sel) == sel # <<>>

\* fmt.Errorf("error reading input: %v", err) and the two after it
\* (src/README.md:170, 181, 186).
InputError(cause) == Error("error reading input: " \o cause)

SelectError(cause) == Error("error selecting URL: " \o cause)

OpenError(cause) == Error("error opening URL: " \o cause)

\* One call of run on a collaborator: what was called, with what, and what it
\* returned (ret, and cause: "" for a nil error).
Call(op, arg, ret, cause) == [op |-> op, arg |-> arg, ret |-> ret, cause |-> cause]

Init ==
    /\ args \in {"", "init"}
    /\ isStdinTTY \in BOOLEAN
    /\ tmuxPane \in {"", "%1"}
    /\ paneContent \in RunTexts
    /\ stdinContent \in RunTexts
    /\ pc = "main"
    /\ text = <<>>
    /\ validURLs = <<>>
    /\ firstURLs = <<>>
    /\ phase = "input"
    /\ lastCommand = <<>>
    /\ stdinRead = FALSE
    /\ calls = <<>>
    /\ selectedURL = <<>>
    /\ err = Nil
    /\ stdout = <<>>
    /\ stderr = <<>>
    /\ exitCode = -1

\* main with the argument "init": print the binding and return.
MainInit ==
    /\ pc = "main"
    /\ args = "init"
    /\ stdout' = Append(stdout, Binding \o "\n")
    /\ exitCode' = 0
    /\ pc' = "exit"
    /\ UNCHANGED <<xvars, args, isStdinTTY, tmuxPane, paneContent, stdinContent,
                   lastCommand, stdinRead, calls, selectedURL, err, stderr>>

\* main otherwise: build the collaborators and call run.
MainRun ==
    /\ pc = "main"
    /\ args # "init"
    /\ pc' = "GetInput"
    /\ UNCHANGED <<xvars, args, isStdinTTY, tmuxPane, paneContent, stdinContent,
                   lastCommand, stdinRead, calls, selectedURL, err, stdout,
                   stderr, exitCode>>

\* input, err := inputProvider.GetInput(), in a terminal inside tmux: the
\* output of `tmux capture-pane -p -t $TMUX_PANE`, or the command's error.
GetInputTmux ==
    /\ pc = "GetInput"
    /\ UseTmuxPane(isStdinTTY, tmuxPane)
    /\ lastCommand' = <<"tmux", "capture-pane", "-p", "-t", tmuxPane>>
    /\ \E cause \in Causes \cup {""} :
          IF cause # ""
          THEN /\ calls' = Append(calls, Call("GetInput", <<>>, <<>>, cause))
               /\ err' = InputError(cause)
               /\ pc' = "return"
               /\ UNCHANGED text
          ELSE /\ calls' = Append(calls, Call("GetInput", <<>>, paneContent, ""))
               /\ text' = paneContent
               /\ pc' = "extractURLs"
               /\ UNCHANGED err
    /\ UNCHANGED <<validURLs, firstURLs, phase, args, isStdinTTY, tmuxPane,
                   paneContent, stdinContent, stdinRead, selectedURL, stdout,
                   stderr, exitCode>>

\* input, err := inputProvider.GetInput(), otherwise: io.ReadAll(os.Stdin).
GetInputStdin ==
    /\ pc = "GetInput"
    /\ ~UseTmuxPane(isStdinTTY, tmuxPane)
    /\ stdinRead' = TRUE
    /\ \E cause \in Causes \cup {""} :
          IF cause # ""
          THEN /\ calls' = Append(calls, Call("GetInput", <<>>, <<>>, cause))
               /\ err' = InputError(cause)
               /\ pc' = "return"
               /\ UNCHANGED text
          ELSE /\ calls' = Append(calls, Call("GetInput", <<>>, stdinContent, ""))
               /\ text' = stdinContent
               /\ pc' = "extractURLs"
               /\ UNCHANGED err
    /\ UNCHANGED <<validURLs, firstURLs, phase, args, isStdinTTY, tmuxPane,
                   paneContent, stdinContent, lastCommand, selectedURL, stdout,
                   stderr, exitCode>>

\* urls := extractURLs(string(input)); if len(urls) == 0 { return nil }
ExtractURLs ==
    /\ pc = "extractURLs"
    /\ validURLs' = extractURLs(text)
    /\ firstURLs' = extractURLs(text)
    /\ phase' = "extracted"
    /\ pc' = IF NoURLs(extractURLs(text)) THEN "return" ELSE "SelectURL"
    /\ UNCHANGED <<text, args, isStdinTTY, tmuxPane, paneContent, stdinContent,
                   lastCommand, stdinRead, calls, selectedURL, err, stdout,
                   stderr, exitCode>>

\* What a selector may return for urls: one of them, nothing, or a line that
\* is none of them.
Selections(urls) == Range(urls) \cup {<<>>, <<"x">>}

\* selectedURL, err := urlSelector.SelectURL(urls), and the two ifs after it.
SelectURL ==
    /\ pc = "SelectURL"
    /\ \E sel \in Selections(validURLs), cause \in Causes \cup {""} :
          /\ calls' = Append(calls, Call("SelectURL", validURLs, sel, cause))
          /\ selectedURL' = sel
          /\ IF cause # ""
             THEN err' = SelectError(cause) /\ pc' = "return"
             ELSE /\ pc' = IF Chosen(sel) THEN "OpenURL" ELSE "return"
                  /\ UNCHANGED err
    /\ UNCHANGED <<xvars, args, isStdinTTY, tmuxPane, paneContent, stdinContent,
                   lastCommand, stdinRead, stdout, stderr, exitCode>>

\* if err := urlOpener.OpenURL(selectedURL); err != nil { return ... }
OpenURL ==
    /\ pc = "OpenURL"
    /\ \E cause \in Causes \cup {""} :
          /\ calls' = Append(calls, Call("OpenURL", selectedURL, <<>>, cause))
          /\ err' = IF cause # "" THEN OpenError(cause) ELSE err
    /\ pc' = "return"
    /\ UNCHANGED <<xvars, args, isStdinTTY, tmuxPane, paneContent, stdinContent,
                   lastCommand, stdinRead, selectedURL, stdout, stderr, exitCode>>

\* A variant of ExitCodeFor that always reports success.
ExitCodeForZero(e) == 0

\* os.Exit(1) when run returned an error; 0 when main returns.
ExitCodeFor(e) == IF e.failed THEN 1 ELSE 0

\* main after run returned: the error goes to os.Stderr and the exit code is 1.
MainExit ==
    /\ pc = "return"
    /\ stderr' = IF err.failed THEN Append(stderr, err.msg \o "\n") ELSE stderr
    /\ exitCode' = ExitCodeFor(err)
    /\ pc' = "exit"
    /\ UNCHANGED <<xvars, args, isStdinTTY, tmuxPane, paneContent, stdinContent,
                   lastCommand, stdinRead, calls, selectedURL, err, stdout>>

Next ==
    \/ MainInit
    \/ MainRun
    \/ GetInputTmux
    \/ GetInputStdin
    \/ ExtractURLs
    \/ SelectURL
    \/ OpenURL
    \/ MainExit

Spec == Init /\ [][Next]_vars

----------------------------------------------------------------------------
(* What the claims about run speak of *)

Ops == [k \in 1..Len(calls) |-> calls[k].op]

IsPrefix(p, q) == Len(p) <= Len(q) /\ \A k \in 1..Len(p) : p[k] = q[k]

\* The user cancelled: the selector returned "" and no error.
Cancelled ==
    \E k \in 1..Len(calls) :
        calls[k].op = "SelectURL" /\ calls[k].ret = <<>> /\ calls[k].cause = ""

\* The message run's error carries when the call c failed.
MessageFor(c) ==
    (CASE c.op = "GetInput" -> "error reading input: "
       [] c.op = "SelectURL" -> "error selecting URL: "
       [] c.op = "OpenURL" -> "error opening URL: ") \o c.cause

CaptureCommand == <<"tmux", "capture-pane", "-p", "-t", tmuxPane>>

\* C7: when input was read, a URL was found and the selector returns "" with
\* no error, the opener is never called, run returns nil, and the process
\* exits with code 0 having written nothing to the error stream.
C7_CancelIsBenign ==
    Cancelled =>
        /\ calls[1].cause = "" /\ validURLs # <<>>
        /\ \A k \in 1..Len(calls) : calls[k].op # "OpenURL"
        /\ pc # "OpenURL"
        /\ err = Nil
        /\ stderr = <<>>
        /\ pc = "exit" => exitCode = 0

C7_Witness == Cancelled /\ pc = "exit"

C9_InputSource ==
    IF calls = <<>>
    THEN lastCommand = <<>> /\ ~stdinRead
    ELSE /\ calls[1].op = "GetInput"
         /\ IF isStdinTTY /\ tmuxPane # ""
            THEN /\ lastCommand = CaptureCommand
                 /\ ~stdinRead
                 /\ calls[1].cause = "" => calls[1].ret = paneContent /\ text = paneContent
            ELSE /\ lastCommand = <<>>
                 /\ stdinRead
                 /\ calls[1].cause = "" => calls[1].ret = stdinContent /\ text = stdinContent
         /\ calls[1].cause # "" => err = Error("error reading input: " \o calls[1].cause)

\* The capture command failed, and standard input, which holds something
\* else than the pane, was not read.
C9_Witness ==
    /\ pc = "exit"
    /\ isStdinTTY /\ tmuxPane = "%1"
    /\ lastCommand = CaptureCommand
    /\ calls[1].cause # ""
    /\ ~stdinRead
    /\ stdinContent # paneContent

\* C10: run calls input source, selector and opener in this order, each at
\* most once, a later one only after every earlier one succeeded: the
\* selector only with the non-empty result of extractURLs on the input read,
\* the opener only with the non-empty string the selector returned without
\* error.  When no URL is found neither is called and run returns nil.
C10_CollaboratorOrder ==
    /\ IsPrefix(Ops, <<"GetInput", "SelectURL", "OpenURL">>)
    /\ \A k \in 1..(Len(calls) - 1) : calls[k].cause = ""
    /\ Len(calls) >= 2 =>
          /\ calls[2].arg = extractURLs(calls[1].ret)
          /\ calls[2].arg # <<>>
    /\ Len(calls) >= 3 =>
          /\ calls[2].ret # <<>>
          /\ calls[3].arg = calls[2].ret
    /\ (pc \in {"return", "exit"} /\ Len(calls) >= 1 /\ calls[1].cause = ""
           /\ extractURLs(calls[1].ret) = <<>>)
          => Len(calls) = 1 /\ err = Nil

\* All three were called, the opener with a line the selector returned.
C10_Witness ==
    /\ pc = "exit"
    /\ Len(calls) = 3
    /\ calls[3].cause = ""
    /\ calls[3].arg = calls[2].ret

====
